---- MODULE Spec2Model ----
(***************************************************************************)
(* Model of the RockBLOCK 9704 driver, src/9704/9704_loopback.py:          *)
(* class Modem9704 (checksum codec, frame encoder/decoder, command         *)
(* channel, bring-up state machine, message session) and the poll loops    *)
(* of initialize() and run().                                              *)
(*                                                                         *)
(* Conventions.  A bytes object is a sequence of numbers 0..255.  A        *)
(* Python value that may be None is kept in a sequence of length 0 (None)  *)
(* or 1 (the value) when it is a bytes object, is the number NoneInt when  *)
(* it is a number, and is the string NoneStr when it is a string.          *)
(* Base64 text is a sequence of alphabet indices 0..63, with B64Pad for    *)
(* the character '='.                                                      *)
(***************************************************************************)
EXTENDS Integers, Sequences, FiniteSets, TLC

VARIABLES
    \* fields of Modem9704 (__init__, lines 74-88)
    modem_state, raw_topic_id, message_id, request_reference, cur_message,
    running, txbuffer, bars,
    \* position of run()/initialize() and the value initialize() returned
    pc, init_ret,
    \* what the last step did: the operation, the branch of process_line it
    \* took, the commands it wrote to the transport, the value send_message
    \* returned, and the exception process_line caught
    last_op, branch, written, ret, err,
    \* progress through the bring-up scenario of section 8 (history)
    scen,
    \* whether the serial port (self.ser) accepts reads and writes
    port,
    \* history of the message session: whether a messageOriginateSegment
    \* command was written since the last accepted send_message, and the
    \* largest request_reference a messageOriginate command has carried
    uploaded, sent_reference,
    \* the line reassembler exercised on its own: the bytes the modem sends,
    \* how many of them the transport has handed over, the receive buffer
    \* (self.rxbuffer) and the lines handed to process_line so far
    stream, consumed, rxbuffer, passed,
    \* the frame codec exercised on its own: input, wire text, the bit of the
    \* frame flipped in transit, decode result, position
    payload, wire, flip, result, cpc

sessionVars == <<modem_state, raw_topic_id, message_id, request_reference,
                 cur_message, running, txbuffer, bars>>
stepVars == <<last_op, branch, written, ret, err>>
codecVars == <<payload, wire, flip, result, cpc>>
historyVars == <<uploaded, sent_reference>>
readerVars == <<stream, consumed, rxbuffer, passed>>
vars == <<modem_state, raw_topic_id, message_id, request_reference,
          cur_message, running, txbuffer, bars, pc, init_ret,
          last_op, branch, written, ret, err, scen,
          port, uploaded, sent_reference,
          stream, consumed, rxbuffer, passed,
          payload, wire, flip, result, cpc>>

----------------------------------------------------------------------------
\* Bounds of the model.

\* longest payload given to the codec on its own
MaxLen == 2
\* send_message is not called from outside once request_reference reached this
MaxRef == 2
\* longest byte stream given to the line reassembler on its own
MaxStream == 4

\* byte values the payloads are drawn from
ByteAlphabet == {0, 1, 65, 200}

----------------------------------------------------------------------------
\* Python values.

NoneInt == -1
NoneStr == "None"
NoneBytes == << >>
Some(b) == << b >>

\* bool(x) of an optional bytes object: None and b'' are false
TruthyBytes(ob) == Len(ob) = 1 /\ Len(ob[1]) > 0
\* bool(x) of an optional number: None and 0 are false
TruthyInt(n) == n # NoneInt /\ n # 0
\* bool(x) of an optional string: None and '' are false
TruthyStr(s) == s # NoneStr /\ s # ""

RECURSIVE BytesUpTo(_)
BytesUpTo(n) ==
    IF n = 0 THEN { << >> }
    ELSE LET shorter == BytesUpTo(n - 1)
         IN  shorter \cup { Append(b, x) : b \in {s \in shorter : Len(s) = n - 1},
                                         x \in ByteAlphabet }

\* x ^ y on non-negative integers
RECURSIVE Xor(_, _)
Xor(x, y) ==
    IF x = 0 THEN y
    ELSE IF y = 0 THEN x
    ELSE (((x % 2) + (y % 2)) % 2) + 2 * Xor(x \div 2, y \div 2)

----------------------------------------------------------------------------
\* Checksum codec (lines 39-72, 106-125).

CRC16_TABLE == <<
    0, 4129, 8258, 12387, 16516, 20645, 24774, 28903,
    33032, 37161, 41290, 45419, 49548, 53677, 57806, 61935,
    4657, 528, 12915, 8786, 21173, 17044, 29431, 25302,
    37689, 33560, 45947, 41818, 54205, 50076, 62463, 58334,
    9314, 13379, 1056, 5121, 25830, 29895, 17572, 21637,
    42346, 46411, 34088, 38153, 58862, 62927, 50604, 54669,
    13907, 9842, 5649, 1584, 30423, 26358, 22165, 18100,
    46939, 42874, 38681, 34616, 63455, 59390, 55197, 51132,
    18628, 22757, 26758, 30887, 2112, 6241, 10242, 14371,
    51660, 55789, 59790, 63919, 35144, 39273, 43274, 47403,
    23285, 19156, 31415, 27286, 6769, 2640, 14899, 10770,
    56317, 52188, 64447, 60318, 39801, 35672, 47931, 43802,
    27814, 31879, 19684, 23749, 11298, 15363, 3168, 7233,
    60846, 64911, 52716, 56781, 44330, 48395, 36200, 40265,
    32407, 28342, 24277, 20212, 15891, 11826, 7761, 3696,
    65439, 61374, 57309, 53244, 48923, 44858, 40793, 36728,
    37256, 33193, 45514, 41451, 53516, 49453, 61774, 57711,
    4224, 161, 12482, 8419, 20484, 16421, 28742, 24679,
    33721, 37784, 41979, 46042, 49981, 54044, 58239, 62302,
    689, 4752, 8947, 13010, 16949, 21012, 25207, 29270,
    46570, 42443, 38312, 34185, 62830, 58703, 54572, 50445,
    13538, 9411, 5280, 1153, 29798, 25671, 21540, 17413,
    42971, 47098, 34713, 38840, 59231, 63358, 50973, 55100,
    9939, 14066, 1681, 5808, 26199, 30326, 17941, 22068,
    55628, 51565, 63758, 59695, 39368, 35305, 47498, 43435,
    22596, 18533, 30726, 26663, 6336, 2273, 14466, 10403,
    52093, 56156, 60223, 64286, 35833, 39896, 43963, 48026,
    19061, 23124, 27191, 31254, 2801, 6864, 10931, 14994,
    64814, 60687, 56684, 52557, 48554, 44427, 40424, 36297,
    31782, 27655, 23652, 19525, 15522, 11395, 7392, 3265,
    61215, 65342, 53085, 57212, 44955, 49082, 36825, 40952,
    28183, 32310, 20053, 24180, 11923, 16050, 3793, 7920
>>

\* calculate_crc with range(len(buffer) - 1): the last byte is left out
RECURSIVE crc_loop_short(_, _, _)
crc_loop_short(buffer, i, crc) ==
    IF i > Len(buffer) - 1 THEN crc
    ELSE crc_loop_short(buffer, i + 1,
             Xor((crc * 256) % 65536,
                 CRC16_TABLE[(Xor(crc \div 256, buffer[i]) % 256) + 1]))

calculate_crc_skips_last(obuffer, initial_crc) ==
    IF TruthyBytes(obuffer)
    THEN crc_loop_short(obuffer[1], 1, initial_crc % 65536)
    ELSE initial_crc % 65536

\* the loop of lines 120-123 indexing the table with the low byte of crc
RECURSIVE crc_loop_low_index(_, _, _)
crc_loop_low_index(buffer, i, crc) ==
    IF i > Len(buffer) THEN crc
    ELSE LET data == buffer[i]
             table_index == Xor(crc % 256, data) % 256
         IN  crc_loop_low_index(buffer, i + 1,
                 Xor((crc * 256) % 65536, CRC16_TABLE[table_index + 1]))

RECURSIVE crc_loop(_, _, _)
crc_loop(buffer, i, crc) ==
    IF i > Len(buffer) THEN crc
    ELSE LET data == buffer[i]
             table_index == Xor(crc \div 256, data) % 256
         IN  crc_loop(buffer, i + 1,
                      Xor((crc * 256) % 65536, CRC16_TABLE[table_index + 1]))

\* calculate_crc(buffer, initial_crc): buffer is an optional bytes object
\* here, because "if buffer" also admits None
calculate_crc(obuffer, initial_crc) ==
    LET crc == initial_crc % 65536
    IN  IF TruthyBytes(obuffer) THEN crc_loop(obuffer[1], 1, crc) ELSE crc

----------------------------------------------------------------------------
\* Text conversions used by the frame codec.

\* f"{crc:x}": the digits without the zero padding
RECURSIVE HexDigits(_)
HexDigits(n) == IF n < 16 THEN << n >> ELSE Append(HexDigits(n \div 16), n % 16)

HexDigitsUnpadded(n) == HexDigits(n)

\* f"{crc:04x}" of a 16-bit value: four hexadecimal digits (as numbers
\* 0..15), zero-padded on the left
HexDigits4(n) ==
    << (n \div 4096) % 16, (n \div 256) % 16, (n \div 16) % 16, n % 16 >>

\* bytes.fromhex on a digit string: pairs of digits, ValueError on an odd count
RECURSIVE BytesFromHex(_)
BytesFromHex(d) ==
    IF Len(d) = 0 THEN [ok |-> TRUE, bytes |-> << >>]
    ELSE IF Len(d) = 1 THEN [ok |-> FALSE, bytes |-> << >>]
    ELSE LET rest == BytesFromHex(SubSeq(d, 3, Len(d)))
         IN  [ok |-> rest.ok, bytes |-> << (16 * d[1]) + d[2] >> \o rest.bytes]

\* n.to_bytes(2, byteorder='big')
ToBytes2Big(n) == << n \div 256, n % 256 >>

B64Pad == 64

\* base64.b64encode
RECURSIVE b64encode(_)
b64encode(b) ==
    IF Len(b) = 0 THEN << >>
    ELSE IF Len(b) = 1
    THEN << b[1] \div 4, (b[1] % 4) * 16, B64Pad, B64Pad >>
    ELSE IF Len(b) = 2
    THEN << b[1] \div 4, ((b[1] % 4) * 16) + (b[2] \div 16), (b[2] % 16) * 4, B64Pad >>
    ELSE << b[1] \div 4, ((b[1] % 4) * 16) + (b[2] \div 16),
            ((b[2] % 16) * 4) + (b[3] \div 64), b[3] % 64 >>
         \o b64encode(SubSeq(b, 4, Len(b)))

\* base64.b64decode (non-validating) of text made of alphabet characters and
\* '=': whole quads, a final quad may end in one or two '='; anything else
\* is binascii.Error ("Incorrect padding")
RECURSIVE b64decode(_)
b64decode(t) ==
    IF Len(t) = 0 THEN [ok |-> TRUE, bytes |-> << >>]
    ELSE IF Len(t) < 4 \/ t[1] = B64Pad \/ t[2] = B64Pad
    THEN [ok |-> FALSE, bytes |-> << >>]
    ELSE IF t[3] = B64Pad
    THEN IF t[4] = B64Pad
         THEN [ok |-> TRUE, bytes |-> << (t[1] * 4) + (t[2] \div 16) >>]
         ELSE [ok |-> FALSE, bytes |-> << >>]
    ELSE IF t[4] = B64Pad
    THEN [ok |-> TRUE,
          bytes |-> << (t[1] * 4) + (t[2] \div 16), ((t[2] % 16) * 16) + (t[3] \div 4) >>]
    ELSE LET rest == b64decode(SubSeq(t, 5, Len(t)))
         IN  [ok |-> rest.ok,
              bytes |-> << (t[1] * 4) + (t[2] \div 16), ((t[2] % 16) * 16) + (t[3] \div 4),
                           ((t[3] % 4) * 64) + t[4] >> \o rest.bytes]

\* b[-2:] and b[:-2]
LastTwo(b) == SubSeq(b, IF Len(b) > 2 THEN Len(b) - 1 ELSE 1, Len(b))
AllButLastTwo(b) == SubSeq(b, 1, Len(b) - 2)

----------------------------------------------------------------------------
\* Frame encoder/decoder (lines 127-175).  Both return a record whose field
\* exc names the exception the call raises ("" when it returns).

encode_message(omessage) ==
    LET crc == calculate_crc(omessage, 0)
        crc_hex == HexDigits4(crc)
        crc_bytes == BytesFromHex(crc_hex)
    IN  IF ~crc_bytes.ok THEN [exc |-> "ValueError", text |-> << >>]
        ELSE IF Len(omessage) = 0 THEN [exc |-> "TypeError", text |-> << >>]
        ELSE [exc |-> "", text |-> b64encode(omessage[1] \o crc_bytes.bytes)]

\* decode_message returning the received checksum as a number written on
\* two bytes (int.from_bytes, then to_bytes(2, 'big'))
decode_message_numeric(encoded_message) ==
    LET decoded == b64decode(encoded_message)
        tail == LastTwo(decoded.bytes)
        number == IF Len(tail) = 0 THEN 0
                  ELSE IF Len(tail) = 1 THEN tail[1]
                  ELSE (tail[1] * 256) + tail[2]
        message_data == AllButLastTwo(decoded.bytes)
        crc_calculated == calculate_crc(Some(message_data), 0)
    IN  IF ~decoded.ok
        THEN [exc |-> "binascii.Error", message_data |-> << >>,
              crc_received |-> << >>, crc_calculated |-> << >>]
        ELSE [exc |-> "", message_data |-> message_data,
              crc_received |-> ToBytes2Big(number),
              crc_calculated |-> ToBytes2Big(crc_calculated)]

decode_message(encoded_message) ==
    LET decoded == b64decode(encoded_message)
        crc_received == LastTwo(decoded.bytes)
        message_data == AllButLastTwo(decoded.bytes)
        crc_calculated == calculate_crc(Some(message_data), 0)
    IN  IF ~decoded.ok
        THEN [exc |-> "binascii.Error", message_data |-> << >>,
              crc_received |-> << >>, crc_calculated |-> << >>]
        ELSE [exc |-> "", message_data |-> message_data,
              crc_received |-> crc_received,
              crc_calculated |-> ToBytes2Big(crc_calculated)]

----------------------------------------------------------------------------
\* ModemState (lines 25-33), in the order of progression.

BOOTED1 == "booted1"
BOOTED2 == "booted2"
BOOTED3 == "booted3"
API_CONFIGURED == "api_configured"
SIM_CONFIGURED == "sim_configured"
OPERATIONAL_CONFIGURED == "operational_configured"
CONSTELLATION_FIRST_VISIBLE == "constellation_first_visible"

ModemState == << BOOTED1, BOOTED2, BOOTED3, API_CONFIGURED, SIM_CONFIGURED,
                 OPERATIONAL_CONFIGURED, CONSTELLATION_FIRST_VISIBLE >>

\* position of a state in the order of progression
Rank(st) == CHOOSE i \in 1..Len(ModemState) : ModemState[i] = st

----------------------------------------------------------------------------
\* JSON objects are records; a key that is absent is not in the domain.

EmptyObject == [k \in {} |-> 0]

\* dict.get(key, default)
Get(obj, key, default) == IF key \in DOMAIN obj THEN obj[key] ELSE default

----------------------------------------------------------------------------
\* The session the methods work on: the fields of the object, and what the
\* call has done so far: commands written, value returned by send_message,
\* branch of process_line's dispatch that ran, exception handled inside
\* process_line (err), exception on its way out of the call (exc).

Self ==
    [modem_state |-> modem_state, raw_topic_id |-> raw_topic_id,
     message_id |-> message_id, request_reference |-> request_reference,
     cur_message |-> cur_message, txbuffer |-> txbuffer, bars |-> bars,
     port |-> port,
     written |-> << >>, ret |-> "None", branch |-> "", err |-> "", exc |-> ""]

\* a call that raises: exc is the exception on its way out
Raise(self, exception) == [self EXCEPT !.exc = exception]

----------------------------------------------------------------------------
\* Command channel, sending side (lines 177-191).  A written command records
\* the command that was outstanding when it was written.

\* self.ser.write: serial.SerialException when the port does not accept it
ser_write(self, command) ==
    IF self.port = "open" THEN [self EXCEPT !.written = Append(@, command)]
    ELSE Raise(self, "SerialException")

send_get_command(self, command) ==
    ser_write([self EXCEPT !.cur_message = command],
              [verb |-> "GET", target |-> command,
               outstanding |-> self.cur_message, options |-> EmptyObject])

send_put_command(self, command, options) ==
    ser_write([self EXCEPT !.cur_message = command],
              [verb |-> "PUT", target |-> command,
               outstanding |-> self.cur_message, options |-> options])

----------------------------------------------------------------------------
\* Message session, send path (lines 301-324).  message is a str (a sequence
\* of code points, is_str) or a bytes object.

\* str.encode('ascii'): UnicodeEncodeError on a code point above 127
AsciiEncodable(s) == \A i \in 1..Len(s) : s[i] < 128

\* send_message without the check of lines 310-312
send_message_ignores_bars(self, message, is_str) ==
    IF is_str /\ ~AsciiEncodable(message) THEN Raise(self, "UnicodeEncodeError")
    ELSE IF ~TruthyInt(self.raw_topic_id) THEN [self EXCEPT !.ret = "False"]
    ELSE IF TruthyBytes(self.txbuffer) THEN [self EXCEPT !.ret = "False"]
    ELSE [send_put_command([self EXCEPT !.request_reference = @ + 1,
                                        !.txbuffer = Some(message)],
                           "messageOriginate",
                           [topic_id |-> self.raw_topic_id,
                            message_length |-> Len(message) + 2,
                            request_reference |-> self.request_reference + 1])
          EXCEPT !.ret = "True"]

\* send_message announcing the payload length without the checksum bytes
send_message_length_without_crc(self, message, is_str) ==
    IF is_str /\ ~AsciiEncodable(message) THEN Raise(self, "UnicodeEncodeError")
    ELSE IF ~TruthyInt(self.raw_topic_id) THEN [self EXCEPT !.ret = "False"]
    ELSE IF self.bars = 0 THEN [self EXCEPT !.ret = "False"]
    ELSE IF TruthyBytes(self.txbuffer) THEN [self EXCEPT !.ret = "False"]
    ELSE [send_put_command([self EXCEPT !.request_reference = @ + 1,
                                        !.txbuffer = Some(message)],
                           "messageOriginate",
                           [topic_id |-> self.raw_topic_id,
                            message_length |-> Len(message),
                            request_reference |-> self.request_reference + 1])
          EXCEPT !.ret = "True"]

\* send_message without the increment of line 319
send_message_reuses_reference(self, message, is_str) ==
    IF is_str /\ ~AsciiEncodable(message) THEN Raise(self, "UnicodeEncodeError")
    ELSE IF ~TruthyInt(self.raw_topic_id) THEN [self EXCEPT !.ret = "False"]
    ELSE IF self.bars = 0 THEN [self EXCEPT !.ret = "False"]
    ELSE IF TruthyBytes(self.txbuffer) THEN [self EXCEPT !.ret = "False"]
    ELSE [send_put_command([self EXCEPT !.txbuffer = Some(message)],
                           "messageOriginate",
                           [topic_id |-> self.raw_topic_id,
                            message_length |-> Len(message) + 2,
                            request_reference |-> self.request_reference])
          EXCEPT !.ret = "True"]

send_message(self, message, is_str) ==
    IF is_str /\ ~AsciiEncodable(message) THEN Raise(self, "UnicodeEncodeError")
    ELSE IF ~TruthyInt(self.raw_topic_id) THEN [self EXCEPT !.ret = "False"]
    ELSE IF self.bars = 0 THEN [self EXCEPT !.ret = "False"]
    ELSE IF TruthyBytes(self.txbuffer) THEN [self EXCEPT !.ret = "False"]
    ELSE LET reference == self.request_reference + 1
             length == Len(message) + 2
             stored == [self EXCEPT !.request_reference = reference,
                                    !.txbuffer = Some(message)]
             sent == send_put_command(stored, "messageOriginate",
                         [topic_id |-> self.raw_topic_id,
                          message_length |-> length,
                          request_reference |-> reference])
         IN  IF sent.exc # "" THEN sent ELSE [sent EXCEPT !.ret = "True"]

----------------------------------------------------------------------------
\* Command channel, receiving side (lines 206-299).  A line is the sequence
\* of its whitespace-separated tokens; a token is a record [t, n, s, j]:
\*   t = "int"   a decimal number n
\*   t = "word"  a word s without '{'
\*   t = "json"  text that contains '{' and is a complete JSON object j
\*   t = "frag"  text that contains '{' and is not valid JSON on its own
\*   t = "nul"   the single character \x00
\*   t = "piece" the n-th whitespace-separated piece of the text of a JSON
\*               object j written with whitespace between its tokens; the
\*               first piece holds the opening '{', and no piece is valid
\*               JSON on its own

IntTok(n) == [t |-> "int", n |-> n, s |-> "", j |-> EmptyObject]
WordTok(s) == [t |-> "word", n |-> 0, s |-> s, j |-> EmptyObject]
JsonTok(j) == [t |-> "json", n |-> 0, s |-> "", j |-> j]
FragTok == [t |-> "frag", n |-> 0, s |-> "", j |-> EmptyObject]
NulTok == [t |-> "nul", n |-> 0, s |-> "", j |-> EmptyObject]
PieceTok(j, n) == [t |-> "piece", n |-> n, s |-> "", j |-> j]

HasBrace(tok) == tok.t \in {"json", "frag"} \/ (tok.t = "piece" /\ tok.n = 1)

\* lines 212-217: the tokens before the first one with '{', then the split
\* of the rest of the line from where that token's text first occurs (an
\* earlier token has no '{', so that is the token's own place)
split_parts(line) ==
    IF \E i \in 1..Len(line) : HasBrace(line[i])
    THEN LET first == CHOOSE i \in 1..Len(line) :
                          /\ HasBrace(line[i])
                          /\ \A k \in 1..(i - 1) : ~HasBrace(line[k])
         IN  SubSeq(line, 1, first - 1) \o SubSeq(line, first, Len(line))
    ELSE line

\* the text of a token used as the target
TokenText(tok) == IF tok.t = "word" THEN tok.s ELSE "?"

\* lines 227-231 clearing the outstanding command on any response
acknowledge_any_target(self, target) == [self EXCEPT !.cur_message = NoneStr]

\* process_line without lines 227-231
acknowledge_never(self, target) == self

\* lines 227-231
acknowledge(self, target) ==
    IF target = self.cur_message THEN [self EXCEPT !.cur_message = NoneStr]
    ELSE self

\* code points of "Ping back "
PingBack == << 80, 105, 110, 103, 32, 98, 97, 99, 107, 32 >>

\* bytes.decode('ascii', errors='replace'): U+FFFD for a byte above 127
RECURSIVE AsciiDecodeReplace(_)
AsciiDecodeReplace(b) ==
    IF Len(b) = 0 THEN << >>
    ELSE << IF b[1] < 128 THEN b[1] ELSE 65533 >> \o AsciiDecodeReplace(Tail(b))

IsRaw(topic) == topic.topic_name = "RAW"

\* lines 262-270
on_messageOriginate(self, json_response) ==
    LET request_reference_rx ==
            Get(json_response, "request_reference", self.request_reference)
    IN  IF /\ self.request_reference = request_reference_rx
           /\ Get(json_response, "message_response", "") = "message_accepted"
        THEN LET got_id == [self EXCEPT
                               !.message_id = Get(json_response, "message_id", 0),
                               !.branch = "originate accepted"]
                 encoded == encode_message(self.txbuffer)
             IN  IF encoded.exc # "" THEN Raise(got_id, encoded.exc)
                 ELSE send_put_command(got_id, "messageOriginateSegment",
                          [topic_id |-> self.raw_topic_id,
                           message_id |-> got_id.message_id,
                           segment_length |-> Len(self.txbuffer[1]) + 2,
                           segment_start |-> 0,
                           data |-> encoded.text])
        ELSE [self EXCEPT !.branch = "originate ignored"]

\* lines 271-278 without the assignment of line 278
on_messageOriginateStatus_keeps_buffer(self, json_response) ==
    [self EXCEPT !.branch =
        IF Get(json_response, "message_id", 0) # self.message_id
        THEN "status of another message"
        ELSE IF Get(json_response, "final_mo_status", "") = "mo_ack_received"
        THEN "Message Sent"
        ELSE "Message NOT Sent"]

\* lines 271-278
on_messageOriginateStatus(self, json_response) ==
    LET same_id == Get(json_response, "message_id", 0) = self.message_id
        outcome ==
            IF Get(json_response, "final_mo_status", "") = "mo_ack_received" /\ same_id
            THEN "Message Sent"
            ELSE IF same_id THEN "Message NOT Sent"
            ELSE "status of another message"
    IN  [self EXCEPT !.txbuffer = NoneBytes, !.branch = outcome]

\* lines 279-294 without the comparison of line 285
on_messageTerminateSegment_unchecked(self, json_response) ==
    LET decoded == decode_message(Get(json_response, "data", << >>))
    IN  IF decoded.exc # "" THEN Raise(self, decoded.exc)
        ELSE IF TruthyInt(self.raw_topic_id)
        THEN send_message([self EXCEPT !.branch = "Sending back"],
                 PingBack \o AsciiDecodeReplace(decoded.message_data), TRUE)
        ELSE [self EXCEPT !.branch = "Not ready to send"]

\* lines 279-294
on_messageTerminateSegment(self, json_response) ==
    LET message_data == Get(json_response, "data", << >>)
        decoded == decode_message(message_data)
    IN  IF decoded.exc # "" THEN Raise(self, decoded.exc)
        ELSE IF decoded.crc_received # decoded.crc_calculated
        THEN [self EXCEPT !.branch = "CRC mismatch"]
        ELSE IF TruthyInt(self.raw_topic_id)
        THEN send_message([self EXCEPT !.branch = "Sending back"],
                 PingBack \o AsciiDecodeReplace(decoded.message_data), TRUE)
        ELSE [self EXCEPT !.branch = "Not ready to send"]

\* lines 255-261 taking the id of the first topic listed, whatever its name
on_messageProvisioning_first_topic(self, json_response) ==
    LET provisioning == Get(json_response, "provisioning", << >>)
    IN  IF Len(provisioning) > 0
        THEN [self EXCEPT !.raw_topic_id = provisioning[1].topic_id,
                          !.branch = "RAW topic ID"]
        ELSE [self EXCEPT !.branch = "no RAW topic"]

\* lines 255-261
on_messageProvisioning(self, json_response) ==
    LET provisioning == Get(json_response, "provisioning", << >>)
    IN  IF \E i \in 1..Len(provisioning) : IsRaw(provisioning[i])
        THEN LET first == CHOOSE i \in 1..Len(provisioning) :
                              /\ IsRaw(provisioning[i])
                              /\ \A k \in 1..(i - 1) : ~IsRaw(provisioning[k])
             IN  [self EXCEPT !.raw_topic_id = provisioning[first].topic_id,
                              !.branch = "RAW topic ID"]
        ELSE [self EXCEPT !.branch = "no RAW topic"]

\* lines 233-236 with the state of the table of section 4.5
on_status_400_to_booted1(self) ==
    [self EXCEPT !.modem_state = BOOTED1, !.branch = "400"]

\* lines 233-236 giving up the pending send as well
on_status_400_drops_send(self) ==
    [self EXCEPT !.modem_state = BOOTED2, !.txbuffer = NoneBytes, !.branch = "400"]

\* lines 233-236
on_status_400(self) ==
    [self EXCEPT !.modem_state = BOOTED2, !.branch = "400"]

\* the accepted codes with 200 forgotten
Ok3_without_200 == {299, 402}

\* the status codes a target's branch accepts
Ok3 == {200, 299, 402}
Ok4 == {200, 299, 402, 406}
\* the accepted codes of the later branches with 402 let in
Ok2_with_402 == {200, 299, 402}

Ok2 == {200, 299}

\* lines 227-294: a parsed response
dispatch(self0, response_code, target, json_response) ==
    LET self == acknowledge(self0, target)
    IN  IF response_code = 400
        THEN on_status_400(self)
        ELSE IF /\ target = "apiVersion" /\ response_code \in Ok3
                /\ Get(Get(json_response, "active_version", EmptyObject),
                       "major", 0) >= 1
        THEN [self EXCEPT !.modem_state = BOOTED3, !.branch = "apiVersion set"]
        ELSE IF target = "apiVersion" /\ response_code \in Ok3
        THEN [self EXCEPT !.modem_state = BOOTED2, !.branch = "apiVersion unset"]
        ELSE IF target = "hwInfo" /\ response_code \in Ok3
        THEN [self EXCEPT !.modem_state = API_CONFIGURED, !.branch = "hwInfo"]
        ELSE IF target = "simConfig" /\ response_code \in Ok3
        THEN [self EXCEPT !.modem_state = SIM_CONFIGURED, !.branch = "simConfig"]
        ELSE IF target = "operationalState" /\ response_code \in Ok4
        THEN [self EXCEPT !.modem_state = OPERATIONAL_CONFIGURED,
                          !.branch = "Modem configured"]
        ELSE IF /\ target = "constellationState" /\ response_code \in Ok2
                /\ Get(json_response, "constellation_visible", FALSE)
        THEN [self EXCEPT !.modem_state = CONSTELLATION_FIRST_VISIBLE,
                          !.bars = Get(json_response, "signal_bars", 0),
                          !.branch = "constellation visible"]
        ELSE IF target = "constellationState" /\ response_code \in Ok2
        THEN [self EXCEPT !.bars = Get(json_response, "signal_bars", 0),
                          !.branch = "constellation not visible"]
        ELSE IF target = "messageProvisioning" /\ response_code \in Ok2
        THEN on_messageProvisioning(self, json_response)
        ELSE IF target = "messageOriginate" /\ response_code \in Ok2
        THEN on_messageOriginate(self, json_response)
        ELSE IF target = "messageOriginateStatus" /\ response_code \in Ok2
        THEN on_messageOriginateStatus(self, json_response)
        ELSE IF target = "messageTerminateSegment" /\ response_code = 299
        THEN on_messageTerminateSegment(self, json_response)
        ELSE [self EXCEPT !.branch = "no branch"]

\* process_line without its except clauses
handle_reraises(self) == self

\* lines 296-299: every exception raised while the line is handled is caught
\* and logged; what was assigned before it stays assigned
handle(self) ==
    IF self.exc # "" THEN [self EXCEPT !.err = self.exc, !.exc = ""] ELSE self

\* lines 206-299
process_line(self, line) ==
    LET parts == split_parts(line)
    IN  IF parts[1].t = "nul" THEN [self EXCEPT !.branch = "ignored"]
        ELSE IF parts[1].t # "int" THEN handle(Raise(self, "ValueError"))
        ELSE IF Len(parts) < 3 THEN handle(Raise(self, "IndexError"))
        ELSE IF parts[3].t # "json" THEN handle(Raise(self, "JSONDecodeError"))
        ELSE handle(dispatch(self, parts[1].n, TokenText(parts[2]), parts[3].j))

----------------------------------------------------------------------------
\* Line reassembler (read_serial, lines 193-204).  Text is a sequence of
\* code points.

\* b'\r'
CR == 13

\* the code points below 128 that str.strip() removes
IsSpace(c) == c \in {9, 10, 11, 12, 13, 28, 29, 30, 31, 32}

\* bytes.split(sep) for a one-byte separator
RECURSIVE split(_, _)
split(b, sep) ==
    IF \E i \in 1..Len(b) : b[i] = sep
    THEN LET first == CHOOSE i \in 1..Len(b) :
                          /\ b[i] = sep
                          /\ \A k \in 1..(i - 1) : b[k] # sep
         IN  << SubSeq(b, 1, first - 1) >> \o split(SubSeq(b, first + 1, Len(b)), sep)
    ELSE << b >>

RECURSIVE lstrip(_)
lstrip(text) ==
    IF Len(text) > 0 /\ IsSpace(text[1]) THEN lstrip(Tail(text)) ELSE text

RECURSIVE rstrip(_)
rstrip(text) ==
    IF Len(text) > 0 /\ IsSpace(text[Len(text)])
    THEN rstrip(SubSeq(text, 1, Len(text) - 1))
    ELSE text

\* str.strip()
strip(text) == rstrip(lstrip(text))

\* lines 201-204: the lines of the list that reach process_line
RECURSIVE lines_processed(_)
lines_processed(lines) ==
    IF Len(lines) = 0 THEN << >>
    ELSE LET line == strip(AsciiDecodeReplace(Head(lines)))
         IN  (IF Len(line) > 0 THEN << line >> ELSE << >>)
                 \o lines_processed(Tail(lines))

\* read_serial that starts the buffer afresh after a split
read_serial_drops_fragment(buffer, data) ==
    LET joined == buffer \o data
    IN  IF \E i \in 1..Len(joined) : joined[i] = CR
        THEN LET lines == split(joined, CR)
             IN  [rxbuffer |-> << >>,
                  passed |-> lines_processed(SubSeq(lines, 1, Len(lines) - 1))]
        ELSE [rxbuffer |-> joined, passed |-> << >>]

\* lines 193-204: the buffer after the call and the lines it handed to
\* process_line, for the buffer before the call and the bytes read
read_serial(buffer, data) ==
    LET joined == buffer \o data
    IN  IF \E i \in 1..Len(joined) : joined[i] = CR
        THEN LET lines == split(joined, CR)
             IN  [rxbuffer |-> lines[Len(lines)],
                  passed |-> lines_processed(SubSeq(lines, 1, Len(lines) - 1))]
        ELSE [rxbuffer |-> joined, passed |-> << >>]

----------------------------------------------------------------------------
\* The driving loop of initialize (lines 332-344): the command for the state.

\* the loop body without the test of line 332
issue_command_unguarded(self) ==
    IF self.modem_state = BOOTED1 THEN send_get_command(self, "apiVersion")
    ELSE IF self.modem_state = BOOTED2
    THEN send_put_command(self, "apiVersion",
             [active_version |-> [major |-> 1, minor |-> 6, patch |-> 1]])
    ELSE IF self.modem_state = BOOTED3 THEN send_get_command(self, "hwInfo")
    ELSE IF self.modem_state = API_CONFIGURED
    THEN send_put_command(self, "simConfig", [interface |-> "internal"])
    ELSE IF self.modem_state = SIM_CONFIGURED
    THEN send_put_command(self, "operationalState", [state |-> "active"])
    ELSE IF /\ self.modem_state = CONSTELLATION_FIRST_VISIBLE
            /\ ~TruthyInt(self.raw_topic_id)
    THEN send_get_command(self, "messageProvisioning")
    ELSE self

\* the loop body asking for the topics as soon as the modem is operational
issue_command_polls_early(self) ==
    IF TruthyStr(self.cur_message) THEN self
    ELSE IF /\ self.modem_state \in {OPERATIONAL_CONFIGURED,
                                     CONSTELLATION_FIRST_VISIBLE}
            /\ ~TruthyInt(self.raw_topic_id)
    THEN send_get_command(self, "messageProvisioning")
    ELSE issue_command_unguarded(self)

issue_command(self) ==
    IF TruthyStr(self.cur_message) THEN self
    ELSE IF self.modem_state = BOOTED1 THEN send_get_command(self, "apiVersion")
    ELSE IF self.modem_state = BOOTED2
    THEN send_put_command(self, "apiVersion",
             [active_version |-> [major |-> 1, minor |-> 6, patch |-> 1]])
    ELSE IF self.modem_state = BOOTED3 THEN send_get_command(self, "hwInfo")
    ELSE IF self.modem_state = API_CONFIGURED
    THEN send_put_command(self, "simConfig", [interface |-> "internal"])
    ELSE IF self.modem_state = SIM_CONFIGURED
    THEN send_put_command(self, "operationalState", [state |-> "active"])
    ELSE IF /\ self.modem_state = CONSTELLATION_FIRST_VISIBLE
            /\ ~TruthyInt(self.raw_topic_id)
    THEN send_get_command(self, "messageProvisioning")
    ELSE self

\* line 349 without the test of the topic id
bringup_complete_without_topic(self) ==
    self.modem_state = CONSTELLATION_FIRST_VISIBLE

\* line 349: the condition on which initialize returns True
bringup_complete(self) ==
    self.modem_state = CONSTELLATION_FIRST_VISIBLE /\ TruthyInt(self.raw_topic_id)

----------------------------------------------------------------------------
\* What the modem and the application may feed the driver.

\* topic ids the modem assigns (positive numbers) and message ids
RawTopic == 7
OtherTopic == 9
MsgIdA == 1
MsgIdB == 2

Resp(code, target, body) == << IntTok(code), WordTok(target), JsonTok(body) >>

\* the status code, target and body of a well-formed response line
CodeOf(line) == line[1].n
TargetOf(line) == line[2].s
BodyOf(line) == line[3].j
WellFormed(line) ==
    Len(line) = 3 /\ line[1].t = "int" /\ line[2].t = "word" /\ line[3].t = "json"

\* wire text of payload || checksum, and of the same frame with the lowest
\* bit of its last byte flipped
GoodFrame(p) == encode_message(Some(p)).text
CorruptFrame(p) ==
    LET frame == b64decode(GoodFrame(p)).bytes
        n == Len(frame)
    IN  b64encode([frame EXCEPT ![n] = Xor(@, 1)])

ScenarioA ==
    << Resp(200, "apiVersion", [active_version |-> [major |-> 1]]),
       Resp(200, "hwInfo", EmptyObject),
       Resp(200, "simConfig", EmptyObject),
       Resp(200, "operationalState", EmptyObject),
       Resp(299, "constellationState",
            [constellation_visible |-> TRUE, signal_bars |-> 3]) >>

\* responses to the bring-up commands, solicited or not
BringUpLines ==
    { ScenarioA[i] : i \in 1..Len(ScenarioA) } \cup
    { Resp(200, "apiVersion", EmptyObject),
      Resp(402, "apiVersion", [active_version |-> [major |-> 0]]),
      Resp(406, "apiVersion", [active_version |-> [major |-> 1]]),
      Resp(400, "apiVersion", EmptyObject),
      Resp(400, "operationalState", EmptyObject),
      Resp(400, "constellationState",
           [constellation_visible |-> TRUE, signal_bars |-> 3]),
      Resp(299, "hwInfo", EmptyObject),
      Resp(406, "hwInfo", EmptyObject),
      Resp(402, "simConfig", EmptyObject),
      Resp(406, "operationalState", EmptyObject),
      Resp(408, "operationalState", EmptyObject),
      Resp(200, "constellationState",
           [constellation_visible |-> FALSE, signal_bars |-> 3]),
      Resp(299, "constellationState", [constellation_visible |-> TRUE]),
      Resp(402, "constellationState",
           [constellation_visible |-> TRUE, signal_bars |-> 3]),
      Resp(200, "messageProvisioning",
           [provisioning |-> << [topic_name |-> "RAW", topic_id |-> RawTopic] >>]),
      Resp(299, "messageProvisioning",
           [provisioning |-> << [topic_name |-> "GREY", topic_id |-> OtherTopic],
                                [topic_name |-> "RAW", topic_id |-> RawTopic] >>]),
      Resp(200, "messageProvisioning",
           [provisioning |-> << [topic_name |-> "GREY", topic_id |-> OtherTopic] >>]),
      Resp(200, "messageProvisioning", EmptyObject),
      Resp(402, "messageProvisioning",
           [provisioning |-> << [topic_name |-> "RAW", topic_id |-> RawTopic] >>]) }

Accepted(fields) == [message_response |-> "message_accepted"] @@ fields

\* responses of the message session
MessageLines ==
    { Resp(200, "messageOriginate",
           Accepted([request_reference |-> 1, message_id |-> MsgIdA])),
      Resp(200, "messageOriginate",
           Accepted([request_reference |-> 2, message_id |-> MsgIdA])),
      Resp(299, "messageOriginate", Accepted([message_id |-> MsgIdB])),
      Resp(200, "messageOriginate", Accepted(EmptyObject)),
      Resp(200, "messageOriginate",
           [message_response |-> "invalid_topic", request_reference |-> 1,
            message_id |-> MsgIdB]),
      Resp(402, "messageOriginate",
           Accepted([request_reference |-> 1, message_id |-> MsgIdB])),
      Resp(400, "messageOriginate",
           Accepted([request_reference |-> 1, message_id |-> MsgIdB])),
      Resp(200, "messageOriginateSegment", EmptyObject),
      Resp(299, "messageOriginateStatus",
           [final_mo_status |-> "mo_ack_received", message_id |-> MsgIdA]),
      Resp(299, "messageOriginateStatus",
           [final_mo_status |-> "mo_ack_received", message_id |-> MsgIdB]),
      Resp(200, "messageOriginateStatus",
           [final_mo_status |-> "message_discarded_on_overflow",
            message_id |-> MsgIdA]),
      Resp(299, "messageOriginateStatus", EmptyObject),
      Resp(402, "messageOriginateStatus",
           [final_mo_status |-> "mo_ack_received", message_id |-> MsgIdA]),
      Resp(400, "messageOriginateStatus",
           [final_mo_status |-> "mo_ack_received", message_id |-> MsgIdA]),
      Resp(299, "messageTerminateSegment",
           [message_id |-> MsgIdA, data |-> GoodFrame(<< 65 >>)]),
      Resp(299, "messageTerminateSegment",
           [message_id |-> MsgIdA, data |-> GoodFrame(<< 200 >>)]),
      Resp(299, "messageTerminateSegment",
           [message_id |-> MsgIdA, data |-> CorruptFrame(<< 65 >>)]),
      Resp(299, "messageTerminateSegment",
           [message_id |-> MsgIdA, data |-> CorruptFrame(<< >>)]),
      Resp(299, "messageTerminateSegment",
           [message_id |-> MsgIdA, data |-> b64encode(<< 65 >>)]),
      Resp(299, "messageTerminateSegment", [message_id |-> MsgIdA]),
      Resp(299, "messageTerminateSegment",
           [message_id |-> MsgIdA, data |-> << 16, 16, 16 >>]),
      Resp(200, "messageTerminateSegment",
           [message_id |-> MsgIdA, data |-> GoodFrame(<< 65 >>)]) }

\* lines that are not <status> <target> <json>
MalformedLines ==
    { << NulTok >>,
      << IntTok(200) >>,
      << IntTok(200), WordTok("hwInfo") >>,
      << WordTok("OK"), WordTok("hwInfo"), JsonTok(EmptyObject) >>,
      << IntTok(200), WordTok("hwInfo"), FragTok >>,
      << IntTok(200), WordTok("hwInfo"), FragTok, FragTok >>,
      << IntTok(200), WordTok("hwInfo"), WordTok("ready") >> }

\* the bring-up responses that make the link usable, and a demotion
LinkUpLines ==
    { ScenarioA[5],
      Resp(200, "messageProvisioning",
           [provisioning |-> << [topic_name |-> "RAW", topic_id |-> RawTopic] >>]),
      Resp(400, "apiVersion", EmptyObject) }

\* what the modem sends while the bring-up is watched
Lines == BringUpLines \cup MalformedLines
\* what the modem sends while the message session is watched
SessionLines == LinkUpLines \cup MessageLines

\* payloads the application hands to send_message
Payloads == { << >>, << 65 >> }

----------------------------------------------------------------------------
\* The program.

InitSession ==
    /\ modem_state = BOOTED1
    /\ raw_topic_id = NoneInt
    /\ message_id = 0
    /\ request_reference = 0
    /\ cur_message = NoneStr
    /\ running = FALSE
    /\ txbuffer = NoneBytes
    /\ bars = 0

InitStep ==
    /\ last_op = "__init__"
    /\ branch = ""
    /\ written = << >>
    /\ ret = "None"
    /\ err = ""

InitCodecIdle ==
    /\ payload = << >>
    /\ wire = << >>
    /\ flip = NoneInt
    /\ result = decode_message(<< >>)
    /\ cpc = "idle"

\* the port as connect() opened it (lines 89-97), nothing sent yet
InitTransport ==
    /\ port = "open"
    /\ uploaded = FALSE
    /\ sent_reference = 0

\* self.rxbuffer = b'' (line 86), nothing received
InitReaderIdle ==
    /\ stream = << >>
    /\ consumed = 0
    /\ rxbuffer = << >>
    /\ passed = << >>

Init ==
    /\ InitSession
    /\ pc = "start"
    /\ init_ret = "None"
    /\ InitStep
    /\ scen = 0
    /\ InitTransport
    /\ InitReaderIdle
    /\ InitCodecIdle

\* the commands of a call that name the target
CommandsTo(commands, target) ==
    { i \in 1..Len(commands) : commands[i].target = target }

\* the largest request_reference among the messageOriginate commands
RECURSIVE LargestReference(_, _)
LargestReference(commands, floor) ==
    IF Len(commands) = 0 THEN floor
    ELSE LET carried == IF Head(commands).target = "messageOriginate"
                        THEN Head(commands).options.request_reference
                        ELSE floor
         IN  LargestReference(Tail(commands),
                              IF carried > floor THEN carried ELSE floor)

\* the fields after a call, and what the call did
Commit(self, op) ==
    /\ UNCHANGED readerVars
    /\ port' = self.port
    /\ uploaded' = IF CommandsTo(self.written, "messageOriginate") # {} THEN FALSE
                   ELSE IF CommandsTo(self.written, "messageOriginateSegment") # {}
                   THEN TRUE
                   ELSE uploaded
    /\ sent_reference' = LargestReference(self.written, sent_reference)
    /\ modem_state' = self.modem_state
    /\ raw_topic_id' = self.raw_topic_id
    /\ message_id' = self.message_id
    /\ request_reference' = self.request_reference
    /\ cur_message' = self.cur_message
    /\ txbuffer' = self.txbuffer
    /\ bars' = self.bars
    /\ last_op' = op
    /\ branch' = self.branch
    /\ written' = self.written
    /\ ret' = self.ret
    /\ err' = self.err

\* a step of the control flow that calls nothing
Control(op) ==
    /\ UNCHANGED << modem_state, raw_topic_id, message_id, request_reference,
                    cur_message, txbuffer, bars >>
    /\ UNCHANGED << port, historyVars, readerVars >>
    /\ last_op' = op
    /\ branch' = ""
    /\ written' = << >>
    /\ ret' = "None"
    /\ err' = ""

\* run() enters initialize(), which sets the running flag (lines 360, 328)
Initialize ==
    /\ pc = "start"
    /\ running' = TRUE
    /\ pc' = "init_loop"
    /\ Control("initialize")
    /\ UNCHANGED << init_ret, scen, codecVars >>

\* line 329, and line 352 when the flag is cleared: initialize returns False
\* and run returns; line 330 enters read_serial, whose read of the port
\* (line 195) raises serial.SerialException out of initialize and run
InitLoopHead ==
    /\ pc = "init_loop"
    /\ IF running
       THEN /\ pc' = IF port = "open" THEN "init_read" ELSE "raised"
            /\ init_ret' = init_ret
       ELSE pc' = "done" /\ init_ret' = "False"
    /\ Control("while")
    /\ UNCHANGED << running, scen, codecVars >>

\* read_serial (lines 193-204) hands each complete line to process_line
ProcessLine(line) ==
    /\ pc \in {"init_read", "run_read"}
    /\ LET after == process_line(Self, line)
       IN  /\ after.request_reference <= MaxRef
           /\ Commit(after, "process_line")
           \* an exception that leaves process_line ends the poll loop
           /\ pc' = IF after.exc # "" THEN "raised" ELSE pc
    /\ scen' = IF scen \in 0..(Len(ScenarioA) - 1) /\ line = ScenarioA[scen + 1]
               THEN scen + 1 ELSE -1
    /\ UNCHANGED << running, init_ret, codecVars >>

\* read_serial returns to initialize (line 330)
InitEndRead ==
    /\ pc = "init_read"
    /\ pc' = "init_issue"
    /\ Control("read_serial")
    /\ UNCHANGED << running, init_ret, scen, codecVars >>

\* lines 332-346; an exception of the write leaves initialize and run
IssueCommand ==
    /\ pc = "init_issue"
    /\ LET after == issue_command(Self)
       IN  /\ pc' = IF after.exc # "" THEN "raised" ELSE "init_check"
           /\ Commit(after, "issue")
    /\ UNCHANGED << running, init_ret, scen, codecVars >>

\* lines 348-350
InitCheck ==
    /\ pc = "init_check"
    /\ IF bringup_complete(Self)
       THEN pc' = "run_loop" /\ init_ret' = "True"
       ELSE pc' = "init_loop" /\ init_ret' = init_ret
    /\ Control("check")
    /\ UNCHANGED << running, scen, codecVars >>

\* line 364, and run returning when the flag is cleared
RunLoopHead ==
    /\ pc = "run_loop"
    /\ pc' = IF ~running THEN "done"
             ELSE IF port = "open" THEN "run_read" ELSE "raised"
    /\ Control("while")
    /\ UNCHANGED << running, init_ret, scen, codecVars >>

\* read_serial returns to run (lines 365-366)
RunEndRead ==
    /\ pc = "run_read"
    /\ pc' = "run_loop"
    /\ Control("read_serial")
    /\ UNCHANGED << running, init_ret, scen, codecVars >>

\* stop (lines 376-378), from a signal handler or another thread, while
\* the loops run or before run() has reached initialize()
Stop ==
    /\ running \/ pc = "start"
    /\ running' = FALSE
    /\ Control("stop")
    /\ UNCHANGED << pc, init_ret, scen, codecVars >>

\* send_message called by the application with a bytes payload; an
\* exception of the write goes to the application
SendMessage(message) ==
    /\ pc # "done"
    /\ request_reference < MaxRef
    /\ LET after == send_message(Self, message, FALSE)
       IN  Commit([after EXCEPT !.ret = IF after.exc # "" THEN "raised" ELSE @],
                  "send_message")
    /\ UNCHANGED << running, pc, init_ret, scen, codecVars >>

\* the poll loops of initialize and run
Loops ==
    \/ Initialize
    \/ InitLoopHead
    \/ InitEndRead
    \/ IssueCommand
    \/ InitCheck
    \/ RunLoopHead
    \/ RunEndRead

\* the program with a modem that answers, or volunteers, bring-up responses
Next ==
    \/ Loops
    \/ \E line \in Lines : ProcessLine(line)
    \/ Stop

Spec == Init /\ [][Next]_vars

\* the program with a modem that brings the link up and exchanges messages,
\* and an application that sends
NextSession ==
    \/ Loops
    \/ \E line \in SessionLines : ProcessLine(line)
    \/ Stop
    \/ \E message \in Payloads : SendMessage(message)

SpecSession == Init /\ [][NextSession]_vars

----------------------------------------------------------------------------
\* The program on a port that may stop accepting reads and writes, and may
\* accept them again (a cable pulled, a write that times out).

PortFails ==
    /\ port = "open"
    /\ port' = "failing"
    /\ UNCHANGED << sessionVars, pc, init_ret, stepVars, scen, historyVars,
                    readerVars, codecVars >>

PortRecovers ==
    /\ port = "failing"
    /\ port' = "open"
    /\ UNCHANGED << sessionVars, pc, init_ret, stepVars, scen, historyVars,
                    readerVars, codecVars >>

\* responses that make process_line write: the link coming up, an accepted
\* origination, its status, a frame to echo
TransportLines ==
    LinkUpLines \cup
    { Resp(200, "messageOriginate",
           Accepted([request_reference |-> 1, message_id |-> MsgIdA])),
      Resp(299, "messageOriginateStatus",
           [final_mo_status |-> "mo_ack_received", message_id |-> MsgIdA]),
      Resp(299, "messageTerminateSegment",
           [message_id |-> MsgIdA, data |-> GoodFrame(<< 65 >>)]) }

\* the message session with a modem that also sends lines that do not parse
NoisyLines == TransportLines \cup MalformedLines

NextNoisy ==
    \/ Loops
    \/ \E line \in NoisyLines : ProcessLine(line)
    \/ Stop
    \/ \E message \in Payloads : SendMessage(message)

SpecNoisy == Init /\ [][NextNoisy]_vars

NextTransport ==
    \/ Loops
    \/ \E line \in TransportLines : ProcessLine(line)
    \/ Stop
    \/ \E message \in Payloads : SendMessage(message)
    \/ PortFails
    \/ PortRecovers

SpecTransport == Init /\ [][NextTransport]_vars

----------------------------------------------------------------------------
\* The frame codec on its own: a payload is encoded, one bit of the frame
\* may be flipped in transit, and the wire text is decoded.

\* b"PING" (section 8, scenario B)
Ping == << 80, 73, 78, 71 >>

CodecPayloads == BytesUpTo(MaxLen) \cup { Ping }

\* bits of the longest frame
MaxFrameBits == 8 * ((IF MaxLen > Len(Ping) THEN MaxLen ELSE Len(Ping)) + 2)

InitCodec ==
    /\ InitSession
    /\ pc = "start"
    /\ init_ret = "None"
    /\ InitStep
    /\ scen = 0
    /\ InitTransport
    /\ InitReaderIdle
    /\ payload \in CodecPayloads
    /\ wire = << >>
    /\ flip = NoneInt
    /\ result = decode_message(<< >>)
    /\ cpc = "payload"

\* the byte sequence with bit k (0 = lowest bit of the first byte) flipped
FlipBit(b, k) ==
    LET i == (k \div 8) + 1
        weight == 2 ^ (k % 8)
    IN  [b EXCEPT ![i] = IF (@ \div weight) % 2 = 1 THEN @ - weight ELSE @ + weight]

\* everything but the codec stands still
CodecOnly ==
    UNCHANGED << sessionVars, pc, init_ret, stepVars, scen, port, historyVars,
                 readerVars >>

Encode ==
    /\ cpc = "payload"
    /\ LET encoded == encode_message(Some(payload))
       IN  /\ wire' = encoded.text
           /\ cpc' = IF encoded.exc = "" THEN "wire" ELSE "raised"
    /\ UNCHANGED << payload, flip, result >>
    /\ CodecOnly

Corrupt(k) ==
    /\ cpc = "wire"
    /\ flip = NoneInt
    /\ LET frame == b64decode(wire).bytes
       IN  /\ k < 8 * Len(frame)
           /\ wire' = b64encode(FlipBit(frame, k))
    /\ flip' = k
    /\ UNCHANGED << payload, result, cpc >>
    /\ CodecOnly

Decode ==
    /\ cpc = "wire"
    /\ result' = decode_message(wire)
    /\ cpc' = "decoded"
    /\ UNCHANGED << payload, wire, flip >>
    /\ CodecOnly

NextCodec ==
    \/ Encode
    \/ \E k \in 0..(MaxFrameBits - 1) : Corrupt(k)
    \/ Decode

SpecCodec == InitCodec /\ [][NextCodec]_vars

----------------------------------------------------------------------------
\* The program with a modem that writes whitespace between the tokens of
\* its JSON bodies (section 6, response line wire format).

\* the line with its body written in two pieces, as in {"key": value}
Spaced(line) ==
    << line[1], line[2], PieceTok(BodyOf(line), 1), PieceTok(BodyOf(line), 2) >>

SpacedLines == { Spaced(line) : line \in BringUpLines }

NextSpaced ==
    \/ Loops
    \/ \E line \in BringUpLines \cup SpacedLines : ProcessLine(line)
    \/ Stop

SpecSpaced == Init /\ [][NextSpaced]_vars

----------------------------------------------------------------------------
\* The line reassembler on its own: the modem's bytes reach read_serial in
\* reads of any size (ser.in_waiting, line 195), an empty read included.

\* CR, LF, space, 'A' and a byte that is not ASCII
StreamAlphabet == {CR, 10, 32, 65, 200}

Streams == UNION { [1..k -> StreamAlphabet] : k \in 0..MaxStream }

InitReader ==
    /\ InitSession
    /\ pc = "start"
    /\ init_ret = "None"
    /\ InitStep
    /\ scen = 0
    /\ InitTransport
    /\ InitCodecIdle
    /\ stream \in Streams
    /\ consumed = 0
    /\ rxbuffer = << >>
    /\ passed = << >>

\* one call of read_serial that finds n bytes waiting
Read(n) ==
    /\ consumed + n <= Len(stream)
    /\ LET after == read_serial(rxbuffer, SubSeq(stream, consumed + 1, consumed + n))
       IN  /\ rxbuffer' = after.rxbuffer
           /\ passed' = passed \o after.passed
    /\ consumed' = consumed + n
    /\ UNCHANGED << stream, sessionVars, pc, init_ret, stepVars, scen, port,
                    historyVars, codecVars >>

NextReader == \E n \in 0..MaxStream : Read(n)

SpecReader == InitReader /\ [][NextReader]_vars

----------------------------------------------------------------------------
\* The bring-up with a cooperative modem: it answers the outstanding command
\* with status 200 and the command's target, reports a visible constellation
\* once operationalState was accepted, and sends nothing else.  The poll
\* loop keeps running (weak fairness); an answer is in the receive buffer at
\* some later read, and the loop is at its read again and again (strong
\* fairness of the modem's lines).

\* topic ids the modem may give the RAW topic
AssignedTopicIds == {0, RawTopic}

\* the bodies of the answer to the outstanding command: the answer to
\* GET apiVersion (state Booted1) may or may not name an active version,
\* the answer to PUT apiVersion names major version 1
AnswerBodies ==
    IF cur_message = "apiVersion"
    THEN { [active_version |-> [major |-> 1]] } \cup
         (IF modem_state = BOOTED1 THEN { EmptyObject } ELSE {})
    ELSE IF cur_message = "messageProvisioning"
    THEN { [provisioning |-> << [topic_name |-> "RAW", topic_id |-> id] >>] :
             id \in AssignedTopicIds }
    ELSE { EmptyObject }

Answer ==
    /\ TruthyStr(cur_message)
    /\ \E body \in AnswerBodies : ProcessLine(Resp(200, cur_message, body))

ConstellationAppears ==
    /\ modem_state = OPERATIONAL_CONFIGURED
    /\ \E n \in {0, 3} :
           ProcessLine(Resp(299, "constellationState",
                            [constellation_visible |-> TRUE, signal_bars |-> n]))

NextLive ==
    \/ Loops
    \/ Answer
    \/ ConstellationAppears

SpecLive ==
    /\ Init
    /\ [][NextLive]_vars
    /\ WF_vars(Loops)
    /\ SF_vars(Answer)
    /\ SF_vars(ConstellationAppears)

----------------------------------------------------------------------------
\* The bring-up with a modem that answers the outstanding command, but may
\* refuse it: with an error status the dispatch chain accepts for no target,
\* with an apiVersion answer to the PUT that names no major version of at
\* least 1, or with a topic list without RAW.  The poll loop keeps running.

RefusalLines ==
    { Resp(500, cur_message, EmptyObject) } \cup
    (IF cur_message = "apiVersion" /\ modem_state = BOOTED2
     THEN { Resp(200, "apiVersion", EmptyObject),
            Resp(299, "apiVersion", [active_version |-> [major |-> 0]]) }
     ELSE {}) \cup
    (IF cur_message = "messageProvisioning"
     THEN { Resp(200, "messageProvisioning",
                 [provisioning |-> << [topic_name |-> "GREY",
                                       topic_id |-> OtherTopic] >>]) }
     ELSE {})

Refuse ==
    /\ TruthyStr(cur_message)
    /\ pc = "init_read"
    /\ \E line \in RefusalLines : ProcessLine(line)

NextRetry ==
    \/ Loops
    \/ Answer
    \/ ConstellationAppears
    \/ Refuse

SpecRetry == Init /\ [][NextRetry]_vars /\ WF_vars(Loops)

----------------------------------------------------------------------------
\* The bring-up with a modem that never answers the outstanding command: it
\* is silent, or sends responses for other targets with a status other than
\* 400.

Unanswering(line) ==
    /\ WellFormed(line)
    /\ TargetOf(line) # cur_message
    /\ CodeOf(line) # 400
    /\ ProcessLine(line)

NextStall ==
    \/ Loops
    \/ \E line \in BringUpLines : Unanswering(line)
    \/ Stop

SpecStall == Init /\ [][NextStall]_vars

----------------------------------------------------------------------------
\* The message session with a poll loop that keeps running: run() sleeps
\* 20 ms per iteration and comes back to the test of the running flag.

NextStop ==
    \/ Loops
    \/ \E line \in TransportLines : ProcessLine(line)
    \/ Stop
    \/ \E message \in Payloads : SendMessage(message)

SpecStop == Init /\ [][NextStop]_vars /\ WF_vars(Loops)

----------------------------------------------------------------------------
\* The frame codec on every byte value: each entry of CRC16_TABLE is used.

ChecksumPayloads == CodecPayloads \cup { << b >> : b \in 0..255 }

InitChecksum ==
    /\ InitSession
    /\ pc = "start"
    /\ init_ret = "None"
    /\ InitStep
    /\ scen = 0
    /\ InitTransport
    /\ InitReaderIdle
    /\ payload \in ChecksumPayloads
    /\ wire = << >>
    /\ flip = NoneInt
    /\ result = decode_message(<< >>)
    /\ cpc = "payload"

SpecChecksum == InitChecksum /\ [][NextCodec]_vars

----------------------------------------------------------------------------
\* The message session with a modem that also answers with status codes
\* the dispatch chain does not accept for the target.

RejectedLines ==
    { Resp(406, "apiVersion", [active_version |-> [major |-> 1]]),
      Resp(500, "hwInfo", EmptyObject),
      Resp(406, "simConfig", EmptyObject),
      Resp(408, "operationalState", EmptyObject),
      Resp(402, "constellationState",
           [constellation_visible |-> TRUE, signal_bars |-> 1]),
      Resp(406, "constellationState",
           [constellation_visible |-> FALSE, signal_bars |-> 1]),
      Resp(402, "messageProvisioning",
           [provisioning |-> << [topic_name |-> "RAW", topic_id |-> OtherTopic] >>]),
      Resp(402, "messageOriginate",
           Accepted([request_reference |-> 1, message_id |-> MsgIdB])),
      Resp(500, "messageOriginate", Accepted([message_id |-> MsgIdB])),
      Resp(402, "messageOriginateStatus",
           [final_mo_status |-> "mo_ack_received", message_id |-> MsgIdA]),
      Resp(200, "messageTerminateSegment",
           [message_id |-> MsgIdA, data |-> GoodFrame(<< 65 >>)]),
      Resp(402, "messageTerminateSegment",
           [message_id |-> MsgIdA, data |-> GoodFrame(<< 65 >>)]) }

NextRejects ==
    \/ Loops
    \/ \E line \in TransportLines \cup RejectedLines : ProcessLine(line)
    \/ Stop
    \/ \E message \in Payloads : SendMessage(message)

SpecRejects == Init /\ [][NextRejects]_vars

----------------------------------------------------------------------------
\* The message session with a modem that also sends terminate-segment
\* responses whose data is too short to hold a checksum.

ShortFrames == { << >>, b64encode(<< 0 >>), b64encode(<< 65 >>), b64encode(<< 200 >>) }

ShortFrameLines ==
    { Resp(299, "messageTerminateSegment", [message_id |-> MsgIdA]) } \cup
    { Resp(299, "messageTerminateSegment", [message_id |-> MsgIdA, data |-> frame]) :
        frame \in ShortFrames }

NextShort ==
    \/ Loops
    \/ \E line \in TransportLines \cup ShortFrameLines : ProcessLine(line)
    \/ Stop
    \/ \E message \in Payloads : SendMessage(message)

SpecShort == Init /\ [][NextShort]_vars

----------------------------------------------------------------------------
\* Properties.

\* C1: a response whose status is not 400 never moves the bring-up state to
\* an earlier position of the order of progression.
C1_OnlyStatus400Regresses ==
    [][\A line \in Lines :
         (WellFormed(line) /\ CodeOf(line) # 400 /\ ProcessLine(line))
             => Rank(modem_state') >= Rank(modem_state)]_vars

\* C2: no command is written to the transport while a command is outstanding.
C2_NoCommandWhileOutstanding ==
    \A i \in 1..Len(written) : ~TruthyStr(written[i].outstanding)

\* C3: the driving loop writes at most one command on a tick, and none when
\* a command is outstanding once the tick's input has been processed.
C3_LoopIssuesOnlyWhenIdle ==
    [][IssueCommand =>
         /\ Len(written') <= 1
         /\ cur_message # NoneStr => written' = << >>]_vars

C3_Witness ==
    /\ last_op = "issue"
    /\ Len(written) = 1
    /\ written[1].outstanding = NoneStr
    /\ written[1].target = "hwInfo"

\* C4: send_message with no RAW topic id known, or with zero signal bars,
\* returns False, writes no command and leaves request_reference, txbuffer,
\* cur_message, message_id and the bring-up state as they are.  Covers the
\* application's calls and the echo calls made from process_line.
Rejected ==
    /\ ret' = "False"
    /\ written' = << >>
    /\ UNCHANGED << request_reference, txbuffer, cur_message, message_id,
                    modem_state >>

C4_NoTopicOrNoBarsRejected ==
    [][(raw_topic_id = NoneInt \/ bars = 0) =>
         /\ \A message \in Payloads : SendMessage(message) => Rejected
         /\ (last_op' = "process_line" /\ branch' = "Sending back" /\ err' = "")
                => Rejected]_vars

C4_Witness ==
    /\ last_op = "send_message"
    /\ ret = "False"
    /\ raw_topic_id = RawTopic
    /\ bars = 0
    /\ txbuffer = NoneBytes

\* C5: while an accepted payload is pending (txbuffer holds it), a further
\* send_message returns False, writes nothing, and changes neither
\* request_reference nor txbuffer.
C5_PendingSendRejectsNext ==
    [][\A message \in Payloads :
         (txbuffer # NoneBytes /\ SendMessage(message))
             => /\ ret' = "False"
                /\ written' = << >>
                /\ UNCHANGED << request_reference, txbuffer >>]_vars

\* C6: the five responses of scenario A, processed in order from the initial
\* session, lead through Booted3, ApiConfigured, SimConfigured,
\* OperationalConfigured and ConstellationVisible, with bars 3 at the end.
C6_ScenarioA ==
    /\ scen = 1 => modem_state = BOOTED3
    /\ scen = 2 => modem_state = API_CONFIGURED
    /\ scen = 3 => modem_state = SIM_CONFIGURED
    /\ scen = 4 => modem_state = OPERATIONAL_CONFIGURED
    /\ scen = 5 => modem_state = CONSTELLATION_FIRST_VISIBLE /\ bars = 3

C6_Witness == scen = 5

\* C7: decoding an encoded payload gives the payload back, with the received
\* and the computed checksum both the big-endian checksum of the payload.
C7_RoundTrip ==
    /\ cpc # "raised"
    /\ (cpc = "decoded" /\ flip = NoneInt) =>
          /\ result.exc = ""
          /\ result.message_data = payload
          /\ result.crc_received = result.crc_calculated
          /\ result.crc_calculated =
                 << calculate_crc(Some(payload), 0) \div 256,
                    calculate_crc(Some(payload), 0) % 256 >>

C7_Witness ==
    /\ cpc = "decoded"
    /\ flip = NoneInt
    /\ payload = Ping
    /\ result.message_data = Ping

\* the terminate-segment responses (status 299) whose frame's last two bytes
\* are not the checksum of the bytes before them
MismatchLines ==
    { line \in SessionLines :
        /\ TargetOf(line) = "messageTerminateSegment"
        /\ CodeOf(line) = 299
        /\ LET frame == b64decode(Get(BodyOf(line), "data", << >>))
           IN  /\ frame.ok
               /\ LastTwo(frame.bytes) #
                      ToBytes2Big(calculate_crc(Some(AllButLastTwo(frame.bytes)), 0)) }

\* C8: a terminate-segment response with a checksum mismatch is processed
\* without raising; nothing is delivered, no command is written, and
\* request_reference and txbuffer stay as they are.
C8_MismatchDiscarded ==
    [][\A line \in MismatchLines :
         (last_op' = "process_line" /\ ProcessLine(line))
             => /\ pc' # "raised"
                /\ err' = ""
                /\ branch' = "CRC mismatch"
                /\ ret' = "None"
                /\ written' = << >>
                /\ UNCHANGED << request_reference, txbuffer >>]_vars

C8_Witness ==
    /\ last_op = "process_line"
    /\ branch = "CRC mismatch"
    /\ raw_topic_id = RawTopic
    /\ bars = 3
    /\ txbuffer = NoneBytes

\* C9: a frame with one bit flipped decodes to a received checksum that
\* differs from the computed one.
C9_SingleBitFlipDetected ==
    (cpc = "decoded" /\ flip # NoneInt) =>
        /\ result.exc = ""
        /\ result.crc_received # result.crc_calculated

C9_Witness ==
    /\ cpc = "decoded"
    /\ flip = 8 * Len(payload) - 1
    /\ Len(payload) = 2
    /\ result.message_data # payload

Malformed(line) ==
    LET parts == split_parts(line)
    IN  \/ Len(parts) < 3
        \/ parts[1].t # "int"
        \/ parts[3].t # "json"

MalformedNoisyLines == { line \in NoisyLines : Malformed(line) }

\* C11: processing a malformed line raises nothing out of process_line,
\* writes no command, and leaves the bring-up state, the outstanding
\* command, the RAW topic id, the bars, message_id, request_reference and
\* the send buffer as they are.
C11_MalformedDropped ==
    [][\A line \in MalformedNoisyLines :
         (last_op' = "process_line" /\ ProcessLine(line))
             => /\ pc' # "raised"
                /\ written' = << >>
                /\ UNCHANGED << modem_state, cur_message, raw_topic_id, bars,
                                message_id, request_reference, txbuffer >>]_vars

C11_Witness ==
    /\ last_op = "process_line"
    /\ err = "JSONDecodeError"
    /\ modem_state = CONSTELLATION_FIRST_VISIBLE
    /\ cur_message = "messageOriginate"
    /\ txbuffer = Some(<< 65 >>)
    /\ request_reference = 1

\* C12: a failure of the serial port met while a line is processed leaves
\* the poll loop as an exception; it is never caught inside line processing.
C12_TransportFailureFatal ==
    (last_op = "process_line" /\ err = "SerialException") => pc = "raised"

\* C13 as stated: a response with status 400 processed in a state before
\* ConstellationVisible sets the bring-up state to Booted1.
C13_Status400ToBooted1 ==
    [][\A line \in Lines :
         (/\ last_op' = "process_line"
          /\ modem_state # CONSTELLATION_FIRST_VISIBLE
          /\ WellFormed(line) /\ CodeOf(line) = 400
          /\ ProcessLine(line))
             => modem_state' = BOOTED1]_vars

\* C13 as amended: a response with status 400, whatever its target,
\* processed in a state before ConstellationVisible sets the bring-up state
\* to Booted2.
C13_Status400ToBooted2 ==
    [][\A line \in Lines :
         (/\ last_op' = "process_line"
          /\ modem_state # CONSTELLATION_FIRST_VISIBLE
          /\ WellFormed(line) /\ CodeOf(line) = 400
          /\ ProcessLine(line))
             => modem_state' = BOOTED2]_vars

C13_Witness ==
    /\ last_op = "process_line"
    /\ branch = "400"
    /\ modem_state = BOOTED2
    /\ cur_message = "simConfig"
    /\ bars = 0

\* C14: in the state ConstellationVisible a response with status 400 leaves
\* the bring-up state as it is.
C14_TerminalIgnores400 ==
    [][\A line \in Lines :
         (/\ last_op' = "process_line"
          /\ modem_state = CONSTELLATION_FIRST_VISIBLE
          /\ WellFormed(line) /\ CodeOf(line) = 400
          /\ ProcessLine(line))
             => modem_state' = modem_state]_vars

\* C15: the send buffer goes from set to cleared only in the processing of
\* a messageOriginateStatus response whose message_id is the recorded
\* message_id; a status response with another message id leaves it set.
C15_BufferClearedOnlyByMatchingStatus ==
    [][(txbuffer # NoneBytes /\ txbuffer' = NoneBytes) =>
         \E line \in SessionLines :
            /\ TargetOf(line) = "messageOriginateStatus"
            /\ "message_id" \in DOMAIN BodyOf(line)
            /\ BodyOf(line).message_id = message_id
            /\ ProcessLine(line)]_vars

\* a messageOriginate response (status 200 or 299) that echoes the current
\* request_reference and reports message_accepted
MatchingAcceptance(line) ==
    /\ TargetOf(line) = "messageOriginate"
    /\ CodeOf(line) \in {200, 299}
    /\ "request_reference" \in DOMAIN BodyOf(line)
    /\ BodyOf(line).request_reference = request_reference
    /\ Get(BodyOf(line), "message_response", "") = "message_accepted"

\* C16: a messageOriginateSegment command is written only in the processing
\* of a messageOriginate response that echoes the current request_reference
\* and reports acceptance, and message_id is then the response's message
\* id; a messageOriginate response without request_reference, with another
\* one, or not accepted, writes no segment and leaves message_id as it is.
C16_SegmentOnlyOnMatchingAcceptance ==
    [][/\ CommandsTo(written', "messageOriginateSegment") # {} =>
              \E line \in SessionLines :
                 /\ MatchingAcceptance(line)
                 /\ ProcessLine(line)
                 /\ message_id' = Get(BodyOf(line), "message_id", 0)
       /\ \A line \in SessionLines :
              (/\ last_op' = "process_line"
               /\ TargetOf(line) = "messageOriginate"
               /\ ~MatchingAcceptance(line)
               /\ ProcessLine(line))
                  => /\ CommandsTo(written', "messageOriginateSegment") = {}
                     /\ message_id' = message_id]_vars

\* C17: for an accepted send at most one messageOriginateSegment command is
\* written, whatever responses follow, and it has segment_start 0,
\* segment_length the payload length + 2 announced by the send, and data the
\* encoding of the payload the send stored.
C17_OneSegmentPerSend ==
    [][\A i \in CommandsTo(written', "messageOriginateSegment") :
         /\ ~uploaded
         /\ txbuffer # NoneBytes
         /\ written'[i].options.segment_start = 0
         /\ written'[i].options.segment_length = Len(txbuffer[1]) + 2
         /\ written'[i].options.data = encode_message(txbuffer).text]_vars

\* what an accepted send of a payload of the given length does
AcceptedSend(length) ==
    /\ ret' = "True"
    /\ request_reference' = request_reference + 1
    /\ cur_message' = "messageOriginate"
    /\ Len(written') = 1
    /\ written'[1].verb = "PUT"
    /\ written'[1].target = "messageOriginate"
    /\ written'[1].options = [topic_id |-> raw_topic_id,
                              message_length |-> length + 2,
                              request_reference |-> request_reference + 1]

C19_ReferenceMonotonic ==
    [][/\ request_reference' >= request_reference
       /\ request_reference' # request_reference =>
              /\ ret' = "True"
              /\ \/ last_op' = "send_message"
                 \/ last_op' = "process_line" /\ branch' = "Sending back"
       /\ \A i \in CommandsTo(written', "messageOriginate") :
              written'[i].options.request_reference > sent_reference]_vars

C19_Witness ==
    /\ sent_reference = 2
    /\ request_reference = 2
    /\ last_op = "process_line"
    /\ branch = "Sending back"
    /\ ret = "True"

\* the messageOriginateStatus responses with status 200 or 299
StatusLines ==
    { line \in SessionLines :
        TargetOf(line) = "messageOriginateStatus" /\ CodeOf(line) \in {200, 299} }

MatchLines ==
    { line \in SessionLines :
        /\ TargetOf(line) = "messageTerminateSegment"
        /\ CodeOf(line) = 299
        /\ LET frame == b64decode(Get(BodyOf(line), "data", << >>))
           IN  /\ frame.ok
               /\ LastTwo(frame.bytes) =
                      ToBytes2Big(calculate_crc(Some(AllButLastTwo(frame.bytes)), 0)) }

\* C21: a terminate-segment response with matching checksums hands the
\* payload to the send path, which returns its verdict, exactly when a RAW
\* topic id is known; with none known the payload is dropped, no command is
\* written and request_reference and txbuffer stay as they are.
C21_DeliveredIffTopicKnown ==
    [][\A line \in MatchLines :
         (last_op' = "process_line" /\ ProcessLine(line)) =>
             IF raw_topic_id # NoneInt
             THEN /\ branch' = "Sending back"
                  /\ err' = ""
                  /\ ret' \in {"True", "False"}
             ELSE /\ branch' = "Not ready to send"
                  /\ ret' = "None"
                  /\ written' = << >>
                  /\ UNCHANGED << request_reference, txbuffer >>]_vars

WellFormedNoisyLines == { line \in NoisyLines : WellFormed(line) }

\* the outstanding command as lines 227-231 leave it: when the rest of the
\* processing writes a command, that command records it
AfterCorrelation ==
    IF written' = << >> THEN cur_message' ELSE written'[1].outstanding

\* C22: processing a well-formed response clears the outstanding command
\* when the response's target is the outstanding command, and leaves it as
\* it is (set to the same target, or none) otherwise; for every status code.
C22_Correlation ==
    [][\A line \in WellFormedNoisyLines :
         (last_op' = "process_line" /\ ProcessLine(line)) =>
             AfterCorrelation = IF TargetOf(line) = cur_message THEN NoneStr
                                ELSE cur_message]_vars

C22_Witness ==
    /\ last_op = "process_line"
    /\ branch = "400"
    /\ cur_message = "messageOriginate"
    /\ txbuffer # NoneBytes

\* C23: a response line whose JSON body is written with whitespace between
\* its tokens is processed as the same line with the body written compactly:
\* the body is recovered whole and the line is dispatched, not dropped.
C23_SpacedBodyRecovered ==
    [][\A line \in BringUpLines :
         (last_op' = "process_line" /\ ProcessLine(Spaced(line)))
             => ProcessLine(line)]_vars

\* the positions of the delimiter in the bytes
Delimiters(bytes) == { i \in 1..Len(bytes) : bytes[i] = CR }

\* the k-th complete segment: the bytes between the delimiter before the
\* k-th delimiter (or the start) and the k-th delimiter
Segment(bytes, k) ==
    LET end == CHOOSE i \in Delimiters(bytes) :
                   Cardinality({ d \in Delimiters(bytes) : d <= i }) = k
        before == { d \in Delimiters(bytes) : d < end }
        start == IF before = {} THEN 1
                 ELSE 1 + CHOOSE d \in before : \A e \in before : e <= d
    IN  SubSeq(bytes, start, end - 1)

\* a segment as text: U+FFFD for a byte that is not ASCII, and the white
\* space at both ends removed
Trimmed(segment) ==
    LET text == [i \in 1..Len(segment) |->
                    IF segment[i] < 128 THEN segment[i] ELSE 65533]
        inked == { i \in 1..Len(text) : ~IsSpace(text[i]) }
    IN  IF inked = {} THEN << >>
        ELSE SubSeq(text, CHOOSE i \in inked : \A k \in inked : i <= k,
                          CHOOSE i \in inked : \A k \in inked : k <= i)

\* the non-empty lines of the complete segments, in order
CompleteLines(bytes) ==
    SelectSeq([k \in 1..Cardinality(Delimiters(bytes)) |->
                  Trimmed(Segment(bytes, k))],
              LAMBDA line : Len(line) > 0)

\* the bytes after the last delimiter
Fragment(bytes) ==
    LET last == IF Delimiters(bytes) = {} THEN 0
                ELSE CHOOSE d \in Delimiters(bytes) :
                         \A e \in Delimiters(bytes) : e <= d
    IN  SubSeq(bytes, last + 1, Len(bytes))

\* C24: however the stream is cut into reads, the lines handed to
\* process_line so far are the non-empty trimmed texts of the CR-delimited
\* complete segments of the bytes read so far, in order, and the receive
\* buffer holds exactly the bytes after the last CR.
C24_Reassembly ==
    LET read == SubSeq(stream, 1, consumed)
    IN  /\ passed = CompleteLines(read)
        /\ rxbuffer = Fragment(read)

\* two lines delivered, the second one completed by a later read than the
\* one that brought its first byte, and a fragment kept
C24_Witness ==
    /\ stream = << 65, CR, 65, 65 >>
    /\ consumed = 3
    /\ passed = << << 65 >> >>
    /\ rxbuffer = << 65 >>

\* the command table: verb and target for the state, or no command
NoCommand == [verb |-> "", target |-> ""]
CommandFor(state, topic_known) ==
    IF state = BOOTED1 THEN [verb |-> "GET", target |-> "apiVersion"]
    ELSE IF state = BOOTED2 THEN [verb |-> "PUT", target |-> "apiVersion"]
    ELSE IF state = BOOTED3 THEN [verb |-> "GET", target |-> "hwInfo"]
    ELSE IF state = API_CONFIGURED THEN [verb |-> "PUT", target |-> "simConfig"]
    ELSE IF state = SIM_CONFIGURED
    THEN [verb |-> "PUT", target |-> "operationalState"]
    ELSE IF state = CONSTELLATION_FIRST_VISIBLE /\ ~topic_known
    THEN [verb |-> "GET", target |-> "messageProvisioning"]
    ELSE NoCommand

C26_BringUpCompletes == <>(init_ret = "True")

\* C27: while a command is outstanding and the modem does not answer it,
\* the driving loop writes no command and initialize does not return as
\* long as the running flag is set.
C27_StallsWithoutAnswer ==
    [][TruthyStr(cur_message) =>
          /\ last_op' = "issue" => written' = << >>
          /\ running' => init_ret' = "None"]_vars

\* C28: apart from Booted1 to Booted3 on an apiVersion response that names
\* a major version of at least 1 and the demotion on status 400, every
\* change of the bring-up state moves to the next state of the order of
\* progression.
C28_NoSkipping ==
    [][modem_state' # modem_state =>
          \/ Rank(modem_state') = Rank(modem_state) + 1
          \/ modem_state = BOOTED1 /\ modem_state' = BOOTED3
                                   /\ branch' = "apiVersion set"
          \/ branch' = "400"]_vars

\* the responses C29 is about: constellationState without a visible
\* constellation, and messageProvisioning, with status 200 or 299
QuietLines ==
    { line \in BringUpLines :
        /\ CodeOf(line) \in {200, 299}
        /\ \/ /\ TargetOf(line) = "constellationState"
              /\ ~Get(BodyOf(line), "constellation_visible", FALSE)
           \/ TargetOf(line) = "messageProvisioning" }

\* the topic id a messageProvisioning body gives the topic named RAW
RawIds(body) ==
    LET provisioning == Get(body, "provisioning", << >>)
    IN  { provisioning[i].topic_id :
            i \in { k \in 1..Len(provisioning) :
                       provisioning[k].topic_name = "RAW" } }

\* C29: a constellationState response (200/299) that reports no visible
\* constellation records the signal bars and nothing else; a
\* messageProvisioning response (200/299) records the id of the topic named
\* RAW when one is listed and nothing else; neither changes the bring-up
\* state, and the RAW topic id stays as it is when no RAW topic is listed.
C29_QuietResponses ==
    [][\A line \in QuietLines :
         (last_op' = "process_line" /\ ProcessLine(line)) =>
             /\ UNCHANGED << modem_state, message_id, request_reference,
                             txbuffer >>
             /\ written' = << >>
             /\ IF TargetOf(line) = "constellationState"
                THEN /\ bars' = Get(BodyOf(line), "signal_bars", 0)
                     /\ UNCHANGED raw_topic_id
                ELSE /\ UNCHANGED bars
                     /\ IF RawIds(BodyOf(line)) = {} THEN UNCHANGED raw_topic_id
                        ELSE raw_topic_id' \in RawIds(BodyOf(line))]_vars

\* a topic list without RAW processed after the RAW topic id was recorded,
\* in the last state
C29_Witness ==
    /\ last_op = "process_line"
    /\ branch = "no RAW topic"
    /\ raw_topic_id = RawTopic
    /\ modem_state = CONSTELLATION_FIRST_VISIBLE

\* C30: after stop, whenever it is called, the poll loop ends (initialize
\* and run return); stop itself changes only the running flag and leaves a
\* pending send as it is.
C30_StopEndsLoop ==
    /\ (last_op = "stop") ~> (pc = "done")
    /\ [][last_op' = "stop" =>
             /\ ~running'
             /\ UNCHANGED << modem_state, raw_topic_id, message_id,
                             request_reference, cur_message, txbuffer, bars >>]_vars

\* the status codes the dispatch chain accepts for a target (lines 238-279)
AcceptedCodes(target) ==
    IF target \in {"apiVersion", "hwInfo", "simConfig"} THEN {200, 299, 402}
    ELSE IF target = "operationalState" THEN {200, 299, 402, 406}
    ELSE IF target = "messageTerminateSegment" THEN {299}
    ELSE {200, 299}

\* C31: a well-formed response whose status is not 400 and is not accepted
\* for its target raises nothing and changes nothing but, at most, the
\* outstanding command, which it clears: bring-up state, RAW topic id, bars,
\* message_id, request_reference and send buffer stay, no command is written
\* and the poll loop goes on.
C31_RejectedStatusChangesNothing ==
    [][\A line \in RejectedLines :
         (last_op' = "process_line" /\ ProcessLine(line)) =>
             /\ CodeOf(line) # 400
             /\ CodeOf(line) \notin AcceptedCodes(TargetOf(line))
             /\ err' = ""
             /\ pc' = pc
             /\ written' = << >>
             /\ UNCHANGED << modem_state, raw_topic_id, bars, message_id,
                             request_reference, txbuffer >>
             /\ cur_message' \in {cur_message, NoneStr}]_vars

\* a rejected status for the pending send's origination: the command is
\* acknowledged and the send stays pending
C31_Witness ==
    /\ last_op = "process_line"
    /\ branch = "no branch"
    /\ txbuffer # NoneBytes
    /\ request_reference = 1
    /\ cur_message = NoneStr
    /\ uploaded = FALSE

\* CRC-16-CCITT bit by bit: polynomial 0x1021, no reflection, no final XOR
Polynomial == 4129
ShiftBit(crc) ==
    IF crc >= 32768 THEN Xor((crc * 2) % 65536, Polynomial) ELSE crc * 2

RECURSIVE ShiftBits(_, _)
ShiftBits(crc, n) == IF n = 0 THEN crc ELSE ShiftBits(ShiftBit(crc), n - 1)

RECURSIVE BitwiseCrc(_, _)
BitwiseCrc(bytes, crc) ==
    IF Len(bytes) = 0 THEN crc
    ELSE BitwiseCrc(Tail(bytes), ShiftBits(Xor(crc, Head(bytes) * 256), 8))

\* seeds for the checksum of the empty sequence
Seeds == {0, 1, 4129, 65535}

\* C32: calculate_crc with seed 0 is the bit-by-bit CRC-16-CCITT of the
\* sequence, a number in 0..65535; the frame ends with its two bytes; the
\* checksum of the empty sequence (and of no buffer) is the seed.
C32_ChecksumIsCcitt ==
    /\ calculate_crc(Some(payload), 0) = BitwiseCrc(payload, 0)
    /\ calculate_crc(Some(payload), 0) \in 0..65535
    /\ cpc = "wire" /\ flip = NoneInt =>
           LastTwo(b64decode(wire).bytes) = ToBytes2Big(BitwiseCrc(payload, 0))
    /\ \A seed \in Seeds :
           /\ calculate_crc(Some(<< >>), seed) = seed
           /\ calculate_crc(NoneBytes, seed) = seed

\* a two-byte payload: the second step of the loop starts from a checksum
\* that is not zero
C32_Witness ==
    /\ cpc = "wire"
    /\ flip = NoneInt
    /\ payload = << 200, 65 >>
    /\ BitwiseCrc(payload, 0) > 255

\* C33: the send buffer goes from set to cleared only in the processing of
\* a messageOriginateStatus response with status 200 or 299, and while it
\* is set every send_message, from the application or from the echo of a
\* received frame, is rejected.
C33_BufferClearedOnlyByStatus ==
    [][txbuffer # NoneBytes =>
          /\ txbuffer' = NoneBytes =>
                 \E line \in StatusLines :
                     last_op' = "process_line" /\ ProcessLine(line)
          /\ last_op' = "send_message" => ret' = "False"
          /\ (last_op' = "process_line" /\ branch' = "Sending back") =>
                 ret' # "True"]_vars

\* the messageOriginate responses with status 200 or 299 that report
\* message_accepted
AcceptanceLines ==
    { line \in SessionLines :
        /\ TargetOf(line) = "messageOriginate"
        /\ CodeOf(line) \in {200, 299}
        /\ Get(BodyOf(line), "message_response", "") = "message_accepted" }

\* C34: an accepted messageOriginate response whose request_reference is
\* the current one or absent, processed while no send is pending, raises
\* nothing out of process_line, writes no messageOriginateSegment command
\* and leaves message_id, request_reference and the send buffer unchanged.
C34_AcceptanceWithoutPendingSend ==
    [][\A line \in AcceptanceLines :
         (/\ last_op' = "process_line"
          /\ txbuffer = NoneBytes
          /\ Get(BodyOf(line), "request_reference", request_reference)
                 = request_reference
          /\ ProcessLine(line)) =>
             /\ pc' = pc
             /\ CommandsTo(written', "messageOriginateSegment") = {}
             /\ UNCHANGED << message_id, request_reference, txbuffer >>]_vars

\* the responses with status 400 of the message session
Status400Lines == { line \in SessionLines : CodeOf(line) = 400 }

\* C35: a response with status 400, whatever its target, changes the
\* bring-up state and, when its target is the outstanding command, clears
\* that command; nothing else is dispatched: RAW topic id, bars, message_id,
\* request_reference and the send buffer stay and no command is written.
C35_Status400OnlyDemotes ==
    [][\A line \in Status400Lines :
         (last_op' = "process_line" /\ ProcessLine(line)) =>
             /\ branch' = "400"
             /\ err' = ""
             /\ written' = << >>
             /\ UNCHANGED << raw_topic_id, bars, message_id, request_reference,
                             txbuffer >>
             /\ cur_message' = IF TargetOf(line) = cur_message THEN NoneStr
                               ELSE cur_message]_vars

\* a status-400 response processed after the segment of the pending send
\* was uploaded
C35_Witness ==
    /\ last_op = "process_line"
    /\ branch = "400"
    /\ txbuffer # NoneBytes
    /\ uploaded
    /\ message_id = MsgIdA
    /\ modem_state = BOOTED2

\* a refusal was the last thing read: the outstanding command is cleared
\* and the state is the one the command was issued in
Refused(state) ==
    /\ pc = "init_read"
    /\ last_op = "process_line"
    /\ branch \in {"no branch", "apiVersion unset", "no RAW topic"}
    /\ cur_message = NoneStr
    /\ modem_state = state

\* the driving loop has just written the command of the table for the state
Reissued(state) ==
    /\ last_op = "issue"
    /\ modem_state = state
    /\ Len(written) = 1
    /\ written[1].verb = CommandFor(state, FALSE).verb
    /\ written[1].target = CommandFor(state, FALSE).target
    /\ cur_message = written[1].target

\* the states in which the driving loop has a command to issue
CommandStates ==
    { BOOTED1, BOOTED2, BOOTED3, API_CONFIGURED, SIM_CONFIGURED,
      CONSTELLATION_FIRST_VISIBLE }

\* C36: a response to the outstanding command that does not change the
\* bring-up state clears the outstanding command and changes nothing else,
\* and the next tick of the driving loop writes the command for the
\* unchanged state again; this holds after every refusal, however many
\* came before.
C36_RefusedCommandReissued ==
    /\ [][Refuse => /\ cur_message' = NoneStr
                    /\ modem_state' = modem_state
                    /\ written' = << >>
                    /\ err' = ""
                    /\ cur_message = CommandFor(modem_state, FALSE).target]_vars
    /\ \A state \in CommandStates : Refused(state) ~> Reissued(state)

\* the PUT operationalState refused
C36_Witness ==
    /\ Refused(SIM_CONFIGURED)
    /\ branch = "no branch"

\* C37: a terminate-segment response whose data decodes to fewer than two
\* bytes, the data field absent or empty included, is a checksum mismatch:
\* decode_message raises nothing, the received checksum has fewer than two
\* bytes and the computed one has two, and process_line delivers nothing
\* (no send, no command, no field changed but the outstanding command).
C37_ShortFrameIsMismatch ==
    [][\A line \in ShortFrameLines :
         (last_op' = "process_line" /\ ProcessLine(line)) =>
             LET decoded == decode_message(Get(BodyOf(line), "data", << >>))
             IN  /\ decoded.exc = ""
                 /\ Len(decoded.crc_received) < 2
                 /\ Len(decoded.crc_calculated) = 2
                 /\ decoded.message_data = << >>
                 /\ branch' = "CRC mismatch"
                 /\ err' = ""
                 /\ ret' = "None"
                 /\ written' = << >>
                 /\ UNCHANGED << modem_state, raw_topic_id, bars, message_id,
                                 request_reference, txbuffer >>]_vars

\* a short frame processed while the session could echo a payload
C37_Witness ==
    /\ last_op = "process_line"
    /\ branch = "CRC mismatch"
    /\ raw_topic_id = RawTopic
    /\ bars = 3
    /\ txbuffer = NoneBytes

====
